---- MODULE Spec2Model ----
(***************************************************************************)
(* quaver-bio: the update loop of src/main.rs, the Quaver stats client of  *)
(* src/quaver.rs and the Discord profile client of src/discord.rs.         *)
(*                                                                         *)
(* A Rust String is a sequence of characters; a character is written as a  *)
(* one-element TLA+ string ("a", "{", ...).  The characters "eacute",      *)
(* "star" and "acute" stand for U+00E9 (a letter of 2 bytes), U+2605 (a    *)
(* symbol of 3 bytes) and U+0301 (the combining acute accent, a mark of 2  *)
(* bytes that is drawn on the character before it).                        *)
(***************************************************************************)
EXTENDS Integers, Sequences, FiniteSets, TLC

VARIABLES
    pc,          \* where main() is: a startup step, an await point, or ended
    startFile,   \* what the file system held at CONFIG_PATH when main() began
    configFile,  \* what the file system holds at CONFIG_PATH
    pathWritable,\* whether File::create(CONFIG_PATH) can succeed
    envToken,    \* the environment's QB_DISCORD_TOKEN
    secretFile,  \* what the file system holds at the path QB_DISCORD_TOKEN names
    config,      \* main.rs:70   let config
    discord_api, \* main.rs:72   let discord_api (its token)
    started,     \* main.rs:78   let mut started
    user,        \* main.rs:91   let user, of the current iteration
    bio_str,     \* main.rs:100  let bio_str, of the current iteration
    fetchReq,    \* the fetch request of the current iteration (the user id in its URL)
    fetchResp,   \* what the stats service answered to it
    fetchRes,    \* what get_user returned for it
    pubReq,      \* the publish request on the wire (headers and JSON body)
    pubResp,     \* what the profile service answered to the last publish
    pubRes,      \* what set_bio returned for it
    log,         \* the last log entry of the process
    iter,        \* fetches issued so far (saturating at MaxIter)
    slept,       \* the sleeps made in the current iteration
    pubCalls,    \* set_bio calls made in the current iteration
    key,         \* the resolver's argument (resolver specification)
    value        \* the resolver's result   (resolver specification)

vars == <<pc, startFile, configFile, pathWritable, envToken, secretFile, config,
          discord_api, started, user, bio_str, fetchReq, fetchResp, fetchRes, pubReq,
          pubResp, pubRes, log, iter, slept, pubCalls, key, value>>

\* ------------------------------------------------------------------ bounds
\* Iterations counted before the counter saturates.
MaxIter == 3

\* ----------------------------------------------------------------- options
None == [some |-> FALSE]
Some(x) == [some |-> TRUE, val |-> x]

\* ----------------------------------------------------------------- strings
\* n copies of the character c.
Repeat(c, n) == [i \in 1..n |-> c]

Digits == <<"0", "1", "2", "3", "4", "5", "6", "7", "8", "9">>

RECURSIVE to_string(_)
\* u64::to_string: the decimal digits, most significant first, no padding.
to_string(n) ==
    IF n < 10 THEN <<Digits[n + 1]>>
    ELSE to_string(n \div 10) \o <<Digits[(n % 10) + 1]>>

\* An f64 is modelled by a dyadic rational: the number e stands for e/8, which
\* a binary float holds exactly.  format!("{:.2}", x) prints the exact value
\* rounded to two decimals, ties to even: e/8 = (25*e)/200, so the hundredths
\* are (25*e) div 2, and a remainder of 1 is an exact tie.
format_2(e) ==
    LET twice == 25 * e
        q     == twice \div 2
        h     == IF twice % 2 = 1 /\ q % 2 = 1 THEN q + 1 ELSE q
    IN  to_string(h \div 100) \o <<".">>
          \o <<Digits[((h \div 10) % 10) + 1], Digits[(h % 10) + 1]>>

Lower == {"a", "b", "c", "d", "e", "f", "g", "h", "i", "j", "k", "l", "m",
          "n", "o", "p", "q", "r", "s", "t", "u", "v", "w", "x", "y", "z"}
Upper == {"A", "B", "C", "D", "E", "F", "G", "H", "I", "J", "K", "L", "M",
          "N", "O", "P", "Q", "R", "S", "T", "U", "V", "W", "X", "Y", "Z"}

\* The regex class \w (Unicode aware): letters, digits, the underscore,
\* non-ASCII letters such as U+00E9 and marks such as U+0301.
WordChars ==
    Lower \cup Upper \cup {Digits[i] : i \in 1..10}
      \cup {"_", "eacute", "acute"}

IsWordChar(c) == c \in WordChars

\* The least element of a non-empty set of numbers.
Min(S) == CHOOSE x \in S : \A y \in S : x <= y

\* ------------------------------------------------------------ key resolver
K_username == <<"u", "s", "e", "r", "n", "a", "m", "e">>
K_country == <<"c", "o", "u", "n", "t", "r", "y">>
S_rank == <<"r", "a", "n", "k">>
S_rank_country == <<"r", "a", "n", "k", "_", "c", "o", "u", "n", "t", "r", "y">>
S_total_score == <<"t", "o", "t", "a", "l", "_", "s", "c", "o", "r", "e">>
S_ranked_score == <<"r", "a", "n", "k", "e", "d", "_", "s", "c", "o", "r", "e">>
S_accuracy == <<"a", "c", "c", "u", "r", "a", "c", "y">>
S_performance_rating ==
    <<"p", "e", "r", "f", "o", "r", "m", "a", "n", "c", "e", "_",
      "r", "a", "t", "i", "n", "g">>
S_play_count == <<"p", "l", "a", "y", "_", "c", "o", "u", "n", "t">>
S_fail_count == <<"f", "a", "i", "l", "_", "c", "o", "u", "n", "t">>
S_max_combo == <<"m", "a", "x", "_", "c", "o", "m", "b", "o">>

\* The key "4k_<name>".
K4(name) == <<"4", "k", "_">> \o name
\* The key "7k_<name>".
K7(name) == <<"7", "k", "_">> \o name

\* The resolver with a fallback arm that echoes the key instead of ''.
map_key_to_user_value_echo(k, u) ==
    IF k = K_username THEN u.username ELSE k

\* The resolver with the arm of 7k_rank copied from 4k_rank and not adapted.
map_key_to_user_value_copied(k, u) ==
    CASE k = K_username -> u.username
      [] k = K_country -> u.country
      [] k = K4(S_rank) -> to_string(u.stats_keys4.ranks.global)
      [] k = K4(S_rank_country) -> to_string(u.stats_keys4.ranks.country)
      [] k = K4(S_total_score) -> to_string(u.stats_keys4.total_score)
      [] k = K4(S_ranked_score) -> to_string(u.stats_keys4.ranked_score)
      [] k = K4(S_accuracy) -> format_2(u.stats_keys4.overall_accuracy)
      [] k = K4(S_performance_rating) ->
             format_2(u.stats_keys4.overall_performance_rating)
      [] k = K4(S_play_count) -> to_string(u.stats_keys4.play_count)
      [] k = K4(S_fail_count) -> to_string(u.stats_keys4.fail_count)
      [] k = K4(S_max_combo) -> to_string(u.stats_keys4.max_combo)
      [] k = K7(S_rank) -> to_string(u.stats_keys4.ranks.global)
      [] k = K7(S_rank_country) -> to_string(u.stats_keys7.ranks.country)
      [] k = K7(S_total_score) -> to_string(u.stats_keys7.total_score)
      [] k = K7(S_ranked_score) -> to_string(u.stats_keys7.ranked_score)
      [] k = K7(S_accuracy) -> format_2(u.stats_keys7.overall_accuracy)
      [] k = K7(S_performance_rating) ->
             format_2(u.stats_keys7.overall_performance_rating)
      [] k = K7(S_play_count) -> to_string(u.stats_keys7.play_count)
      [] k = K7(S_fail_count) -> to_string(u.stats_keys7.fail_count)
      [] k = K7(S_max_combo) -> to_string(u.stats_keys7.max_combo)
      [] OTHER -> <<>>

\* main.rs:154  fn map_key_to_user_value(key: &str, user: &quaver::User)
map_key_to_user_value(k, u) ==
    CASE k = K_username -> u.username
      [] k = K_country -> u.country
      [] k = K4(S_rank) -> to_string(u.stats_keys4.ranks.global)
      [] k = K4(S_rank_country) -> to_string(u.stats_keys4.ranks.country)
      [] k = K4(S_total_score) -> to_string(u.stats_keys4.total_score)
      [] k = K4(S_ranked_score) -> to_string(u.stats_keys4.ranked_score)
      [] k = K4(S_accuracy) -> format_2(u.stats_keys4.overall_accuracy)
      [] k = K4(S_performance_rating) ->
             format_2(u.stats_keys4.overall_performance_rating)
      [] k = K4(S_play_count) -> to_string(u.stats_keys4.play_count)
      [] k = K4(S_fail_count) -> to_string(u.stats_keys4.fail_count)
      [] k = K4(S_max_combo) -> to_string(u.stats_keys4.max_combo)
      [] k = K7(S_rank) -> to_string(u.stats_keys7.ranks.global)
      [] k = K7(S_rank_country) -> to_string(u.stats_keys7.ranks.country)
      [] k = K7(S_total_score) -> to_string(u.stats_keys7.total_score)
      [] k = K7(S_ranked_score) -> to_string(u.stats_keys7.ranked_score)
      [] k = K7(S_accuracy) -> format_2(u.stats_keys7.overall_accuracy)
      [] k = K7(S_performance_rating) ->
             format_2(u.stats_keys7.overall_performance_rating)
      [] k = K7(S_play_count) -> to_string(u.stats_keys7.play_count)
      [] k = K7(S_fail_count) -> to_string(u.stats_keys7.fail_count)
      [] k = K7(S_max_combo) -> to_string(u.stats_keys7.max_combo)
      [] OTHER -> <<>>

\* --------------------------------------------------------------- renderer
\* The end of the word run that starts at position i of s: the first position
\* at or after i that holds no word character (Len(s) + 1 when there is none).
WordEnd(s, i) ==
    Min({j \in i..(Len(s) + 1) : j = Len(s) + 1 \/ ~IsWordChar(s[j])})

\* The regex \{(\w*)\}: it also matches the empty placeholder.
MatchesAt_star(s, i) ==
    /\ i <= Len(s)
    /\ s[i] = "{"
    /\ WordEnd(s, i + 1) <= Len(s)
    /\ s[WordEnd(s, i + 1)] = "}"

\* Whether the regex \{(\w+)\} matches at position i of s: a '{', one or more
\* word characters (as many as there are), and then a '}'.
MatchesAt(s, i) ==
    /\ i <= Len(s)
    /\ s[i] = "{"
    /\ WordEnd(s, i + 1) > i + 1
    /\ WordEnd(s, i + 1) <= Len(s)
    /\ s[WordEnd(s, i + 1)] = "}"

\* The starts of the matches at or after position i of s.
MatchStarts(s, i) == {j \in i..Len(s) : MatchesAt(s, j)}

\* Regex::replace_all from position i on: the text up to the leftmost match is
\* copied, the match is replaced by the closure's value, and the scan resumes
\* after the match; the inserted value is not scanned.
RECURSIVE replace_all(_, _, _)
replace_all(s, i, u) ==
    IF MatchStarts(s, i) = {} THEN SubSeq(s, i, Len(s))
    ELSE LET m == Min(MatchStarts(s, i))
             e == WordEnd(s, m + 1)
         IN  SubSeq(s, i, m - 1)
               \o map_key_to_user_value(SubSeq(s, m + 1, e - 1), u)
               \o replace_all(s, e + 1, u)

\* A renderer that expands again what the first pass has inserted.
Render_rescan(schema, u) == replace_all(replace_all(schema, 1, u), 1, u)

\* main.rs:100  bio_regex.replace_all(&config.bio_schema, |caps| ...)
Render(schema, u) == replace_all(schema, 1, u)

\* ------------------------------------------------------ stats client (quaver.rs)
JNull == [type |-> "null"]
\* A JSON object that holds every field of quaver::User, with the values of u.
JUser(u) == [type |-> "user", rec |-> u]
\* A JSON object that lacks fields of quaver::User.
JPartialUser == [type |-> "partial_user"]
\* A JSON object as far as get_user reads it: its member "user", if any.
JObject(member) == [type |-> "object", user |-> member]

\* serde_json's IndexMut<&str> on the parsed body, response["user"]: Null
\* becomes an empty object, an object gains a Null member when it has none,
\* and any other value panics ("cannot access key").
index_or_insert(v) ==
    CASE v.type = "null" -> [tag |-> "Ok", val |-> JNull]
      [] v.type = "object" ->
             [tag |-> "Ok", val |-> IF v.user.some THEN v.user.val ELSE JNull]
      [] OTHER -> [tag |-> "Panic"]

\* serde_json::from_value::<User>
from_value(v) ==
    IF v.type = "user" THEN [tag |-> "Ok", user |-> v.rec]
    ELSE [tag |-> "Err", err |-> "Deserialize"]

\* quaver.rs:13  pub async fn get_user(id: u64) -> Result<User>
\* resp is what the transport delivers for GET {API_URL}/v2/user/{id}.  The
\* status of the response is not read.
get_user(id, resp) ==
    IF resp.transport = "error" THEN [tag |-> "Err", err |-> "Request"]
    ELSE IF ~resp.body.json THEN [tag |-> "Err", err |-> "JsonParse"]
    ELSE LET member == index_or_insert(resp.body.value)
         IN  IF member.tag = "Panic" THEN [tag |-> "Panic"]
             ELSE from_value(member.val)

\* --------------------------------------------------- profile client (discord.rs)
\* StatusCode::is_success
is_success(status) == 200 <= status /\ status <= 299

ProfileFields == {"bio", "accent_color", "pronouns", "profile_effect"}

\* ProfileRequest::default()
DefaultProfileRequest == [f \in ProfileFields |-> None]

Absent == [kind |-> "absent"]
JsonNull == [kind |-> "null"]
JsonValue(x) == [kind |-> "value", val |-> x]

\* A serializer without skip_serializing_if: an unset field is sent as null.
Serialize_nulls(req) ==
    [f \in ProfileFields |->
        IF req[f].some THEN JsonValue(req[f].val) ELSE JsonNull]

\* discord.rs:74  #[derive(Serialize)] struct ProfileRequest, each field with
\* skip_serializing_if = "Option::is_none": the members of the JSON body.
Serialize(req) ==
    [f \in ProfileFields |->
        IF req[f].some THEN JsonValue(req[f].val) ELSE Absent]

\* discord.rs:43  the PATCH request set_bio builds and sends.
PatchRequest(token, body) ==
    [authorization |-> token, request |-> body, json |-> Serialize(body)]

\* Whether reqwest accepts v as a header value: a line feed is not allowed.
HeaderValid(v) == \A i \in 1..Len(v) : v[i] # "\n"

\* discord.rs:40  pub async fn set_bio: what it returns for what the transport
\* delivers.  resp.text is the body read by resp.text().await, None when that
\* read fails (its error leaves through `?` as a bare reqwest::Error).
set_bio(resp) ==
    IF resp.transport = "error" THEN [tag |-> "Err", err |-> "Request"]
    ELSE IF ~resp.text.some THEN [tag |-> "Err", err |-> "reqwest"]
    ELSE IF is_success(resp.status) THEN [tag |-> "Ok"]
    ELSE [tag |-> "Err", err |-> "Unknown", body |-> resp.text.val]

\* ------------------------------------------------------------- input data
\* quaver.rs:68  struct Stats (the fields the resolver reads).
StatsOf(g, c, total, ranked, acc, rating, plays, fails, combo) ==
    [ranks |-> [global |-> g, country |-> c],
     total_score |-> total, ranked_score |-> ranked,
     overall_accuracy |-> acc, overall_performance_rating |-> rating,
     play_count |-> plays, fail_count |-> fails, max_combo |-> combo]

\* "Player1" of the US: 4K rank 42, accuracy 787/8 = 98.375.
Player1 ==
    [username |-> <<"P", "l", "a", "y", "e", "r", "1">>,
     country |-> <<"U", "S">>,
     stats_keys4 |-> StatsOf(42, 7, 1000001, 900002, 787, 4321, 350, 12, 1503),
     stats_keys7 |-> StatsOf(6100, 88, 20003, 10004, 699, 101, 25, 9, 404)]

\* A player whose name reads as a placeholder: "{4k_rank}".
Braces ==
    [username |-> <<"{", "4", "k", "_", "r", "a", "n", "k", "}">>,
     country |-> <<"D", "E">>,
     stats_keys4 |-> StatsOf(5, 1, 77, 66, 800, 0, 3, 2, 10),
     stats_keys7 |-> StatsOf(0, 0, 0, 0, 0, 0, 0, 0, 0)]

\* A player with a name of 8 characters, one of them U+00E9.
Remi ==
    [username |-> <<"r", "eacute", "m", "i", "_", "x", "9", "9">>,
     country |-> <<"F", "R">>,
     stats_keys4 |-> StatsOf(123456, 2345, 31, 30, 1, 7, 11, 13, 17),
     stats_keys7 |-> StatsOf(19, 23, 29, 37, 3, 5, 41, 43, 47)]

Users == {Player1, Braces, Remi}

Hello == <<"H", "e", "l", "l", "o", ",", " ">>
YourRank ==
    <<"!", " ", "Y", "o", "u", "r", " ", "4", "K", " ", "r", "a", "n", "k",
      " ", "i", "s", " ">>

\* The placeholder for the key k: "{k}".
Placeholder(k) == <<"{">> \o k \o <<"}">>

\* main.rs:246  "Hello, {username}! Your 4K rank is {4k_rank}."
DefaultSchema ==
    Hello \o Placeholder(K_username) \o YourRank \o Placeholder(K4(S_rank))
      \o <<".">>

\* main.rs:15  const BIO_CHAR_LIMIT: usize = 190
BIO_CHAR_LIMIT == 190

\* A schema that renders to BIO_CHAR_LIMIT characters for a name of 7
\* characters, and to more for a longer one.
LongSchema == Repeat("x", BIO_CHAR_LIMIT - 7) \o Placeholder(K_username)

\* A schema with unknown keys, a malformed and an empty placeholder and a
\* character outside ASCII.
OddSchema ==
    <<"star", " ">> \o Placeholder(<<"f", "o", "o">>)
      \o Placeholder(K7(S_accuracy)) \o <<"{", "}", "{", "u", "n">>
      \o Placeholder(<<"U", "s", "e", "r", "n", "a", "m", "e">>)

\* 100 times U+2605 and the username: 300 bytes before the name.
StarSchema == Repeat("star", 100) \o Placeholder(K_username)

\* "e" with a combining acute accent, as often as makes two characters more
\* than BIO_CHAR_LIMIT: half as many are visible.
CombiningSchema ==
    [i \in 1..(BIO_CHAR_LIMIT + 2) |-> IF i % 2 = 1 THEN "e" ELSE "acute"]

Schemas ==
    {DefaultSchema, LongSchema, OddSchema, StarSchema, CombiningSchema}

ConfigFields == {"quaver_user_id", "bio_schema", "update_interval"}

\* main.rs:242  impl Default for Config
DefaultConfig ==
    [quaver_user_id |-> 0, bio_schema |-> DefaultSchema,
     update_interval |-> 1800]

\* The JSON text Config::save writes for c: every field is present.
ConfigJson(c) ==
    [kind |-> "json", fields |-> [f \in ConfigFields |-> Some(c[f])]]

\* A configuration file that holds the empty JSON object.
EmptyJson == [kind |-> "json", fields |-> [f \in ConfigFields |-> None]]

\* What CONFIG_PATH can hold at startup.
ConfigFiles ==
    {[kind |-> "absent"], [kind |-> "unreadable"], [kind |-> "malformed"],
     EmptyJson,
     ConfigJson([quaver_user_id |-> 1234, bio_schema |-> DefaultSchema,
                 update_interval |-> 1800]),
     ConfigJson([quaver_user_id |-> 1234, bio_schema |-> LongSchema,
                 update_interval |-> 60]),
     ConfigJson([quaver_user_id |-> 77, bio_schema |-> OddSchema,
                 update_interval |-> 1800]),
     ConfigJson([quaver_user_id |-> 77, bio_schema |-> StarSchema,
                 update_interval |-> 60]),
     ConfigJson([quaver_user_id |-> 1234, bio_schema |-> CombiningSchema,
                 update_interval |-> 1800])}

Tok == <<"t", "o", "k">>
\* What QB_DISCORD_TOKEN can hold: unset, or a token with spaces after it.
EnvTokens == {None, Some(Tok \o <<" ", " ">>)}

\* What the file system can hold at the path the trimmed variable names.
SecretFiles ==
    {[kind |-> "absent"], [kind |-> "directory"], [kind |-> "unreadable"],
     [kind |-> "file", content |-> <<"s", "e", "c", "\n">>],
     [kind |-> "file", content |-> <<"s", "e", "c">>]}

\* What the stats service can answer to a fetch.
JsonBodies ==
    {JNull, [type |-> "bool"], [type |-> "number"], [type |-> "string"],
     [type |-> "array"], JObject(None), JObject(Some(JNull)),
     JObject(Some([type |-> "string"])), JObject(Some(JPartialUser))}
      \cup {JObject(Some(JUser(u))) : u \in Users}
FetchStatuses == {200, 404, 500}
FetchResponses ==
    {[transport |-> "error"]}
      \cup {[transport |-> "ok", status |-> st, body |-> [json |-> FALSE]] :
              st \in FetchStatuses}
      \cup {[transport |-> "ok", status |-> st,
             body |-> [json |-> TRUE, value |-> v]] :
              st \in FetchStatuses, v \in JsonBodies}

\* What the profile service can answer to a publish.
PublishStatuses == {200, 204, 401, 500}
PublishResponses ==
    {[transport |-> "error"]}
      \cup {[transport |-> "ok", status |-> st, text |-> t] :
              st \in PublishStatuses, t \in {None, Some("body")}}

\* discord.rs:43-47  what send() can deliver for the request req: a request
\* whose Authorization value is no header value is not sent, send() fails.
SendOutcomes(req) ==
    IF HeaderValid(req.authorization) THEN PublishResponses
    ELSE {[transport |-> "error"]}

\* ---------------------------------------------------------------- startup
RECURSIVE trim_end_spaces(_)
\* str::trim_end_matches(' ')
trim_end_spaces(s) ==
    IF s # <<>> /\ s[Len(s)] = " "
    THEN trim_end_spaces(SubSeq(s, 1, Len(s) - 1))
    ELSE s

\* A resolution that never looks at the file system.
get_env_var_file_literal(env, file) ==
    IF ~env.some THEN [tag |-> "Ok", val |-> None]
    ELSE [tag |-> "Ok", val |-> Some(trim_end_spaces(env.val))]

\* main.rs:184  fn get_env_var_file: env is the variable, file is what the
\* file system holds at the path its trimmed value names.
get_env_var_file(env, file) ==
    IF ~env.some THEN [tag |-> "Ok", val |-> None]
    ELSE IF file.kind = "file"
         THEN [tag |-> "Ok", val |-> Some(file.content)]
         ELSE IF file.kind = "unreadable" THEN [tag |-> "Err"]
         ELSE [tag |-> "Ok", val |-> Some(trim_end_spaces(env.val))]

\* serde_json::from_reader into Config, which is #[serde(default)]: a field
\* the file lacks takes its default.
ParseConfig(fields) ==
    [f \in ConfigFields |->
        IF fields[f].some THEN fields[f].val ELSE DefaultConfig[f]]

\* Config::new that saves the defaults for an absent file and returns them.
Config_new_proceed(file, writable) ==
    CASE file.kind = "absent" ->
             [tag |-> "Ok", config |-> DefaultConfig,
              file |-> IF writable THEN ConfigJson(DefaultConfig) ELSE file]
      [] file.kind = "unreadable" ->
             [tag |-> "Err", err |-> "IoRead", file |-> file]
      [] file.kind = "malformed" ->
             [tag |-> "Err", err |-> "Serde", file |-> file]
      [] OTHER ->
             [tag |-> "Ok", config |-> ParseConfig(file.fields), file |-> file]

\* main.rs:253  Config::new(path), with Config::save for the absent file.
Config_new(file, writable) ==
    CASE file.kind = "absent" ->
             [tag |-> "Err",
              err |-> IF writable THEN "ConfigNotFound" ELSE "IoWrite",
              file |-> IF writable THEN ConfigJson(DefaultConfig) ELSE file]
      [] file.kind = "unreadable" ->
             [tag |-> "Err", err |-> "IoRead", file |-> file]
      [] file.kind = "malformed" ->
             [tag |-> "Err", err |-> "Serde", file |-> file]
      [] OTHER ->
             [tag |-> "Ok", config |-> ParseConfig(file.fields), file |-> file]

\* No request is in flight and no local of the loop body is alive.
NoIteration ==
    /\ user = None /\ bio_str = None
    /\ fetchReq = None /\ fetchResp = None /\ fetchRes = None
    /\ pubReq = None /\ pubResp = None /\ pubRes = None
    /\ slept = <<>> /\ pubCalls = 0

Init ==
    /\ pc = "load_config"
    /\ configFile \in ConfigFiles
    /\ startFile = configFile
    /\ pathWritable \in BOOLEAN
    /\ envToken \in EnvTokens
    /\ secretFile \in SecretFiles
    /\ config = None /\ discord_api = None
    /\ started = FALSE
    /\ NoIteration
    /\ log = "none" /\ iter = 0
    /\ key = None /\ value = None

\* main.rs:70  let config = Config::new(&CONFIG_PATH).unwrap();
LoadConfig ==
    /\ pc = "load_config"
    /\ LET r == Config_new(configFile, pathWritable)
       IN  /\ configFile' = r.file
           /\ IF r.tag = "Ok"
              THEN config' = Some(r.config) /\ pc' = "create_api"
              ELSE config' = config /\ pc' = "exited"
    /\ UNCHANGED <<startFile, pathWritable, envToken, secretFile, discord_api,
                   started,
                   user, bio_str, fetchReq, fetchResp, fetchRes, pubReq,
                   pubResp, pubRes, log, iter, slept, pubCalls, key, value>>

\* main.rs:72  let discord_api = discord::Api::new(&DISCORD_TOKEN).await?;
\* The first use of DISCORD_TOKEN resolves it (main.rs:38): an unreadable
\* file and an unset variable panic.  built is whether reqwest builds the
\* client (discord.rs:28).
CreateApi ==
    /\ pc = "create_api"
    /\ \E built \in BOOLEAN :
         LET t == get_env_var_file(envToken, secretFile)
         IN  IF t.tag = "Ok" /\ t.val.some /\ built
             THEN discord_api' = Some([token |-> t.val.val])
                    /\ pc' = "loop_top"
             ELSE discord_api' = discord_api /\ pc' = "exited"
    /\ UNCHANGED <<startFile, configFile, pathWritable, envToken, secretFile, config,
                   started, user, bio_str, fetchReq, fetchResp, fetchRes,
                   pubReq, pubResp, pubRes, log, iter, slept, pubCalls, key,
                   value>>

\* ------------------------------------------------------------ update loop
\* A loop that never sleeps.
NeedsSleep_never == FALSE

\* main.rs:84  if started
NeedsSleep == started

\* The bytes of a character in UTF-8.
Utf8Len(c) ==
    CASE c \in {"eacute", "acute"} -> 2
      [] c = "star" -> 3
      [] OTHER -> 1

\* str::len: the bytes of a string.
ByteLen(s) ==
    Len(s) + Cardinality({i \in 1..Len(s) : Utf8Len(s[i]) >= 2})
           + Cardinality({i \in 1..Len(s) : Utf8Len(s[i]) >= 3})

\* The characters of a string as a reader sees them: a combining mark is
\* drawn on the character before it.
VisibleLen(s) == Cardinality({i \in 1..Len(s) : s[i] # "acute"})

\* A length check on the bytes of the bio.
ExceedsLimit_bytes(bio) == ByteLen(bio) > BIO_CHAR_LIMIT

\* A length check that also rejects a bio of exactly the limit.
ExceedsLimit_ge(bio) == Len(bio) >= BIO_CHAR_LIMIT

\* main.rs:108  bio_str.chars().count() > BIO_CHAR_LIMIT
ExceedsLimit(bio) == Len(bio) > BIO_CHAR_LIMIT

\* main.rs:114  discord::ProfileRequest { bio: Some(..), ..Default::default() }
BioRequest(bio) == [DefaultProfileRequest EXCEPT !.bio = Some(bio)]

\* quaver.rs:32  #[derive(Default)] struct User
DefaultUser ==
    [username |-> <<>>, country |-> <<>>,
     stats_keys4 |-> StatsOf(0, 0, 0, 0, 0, 0, 0, 0, 0),
     stats_keys7 |-> StatsOf(0, 0, 0, 0, 0, 0, 0, 0, 0)]

\* A loop body that goes on with the default user when the fetch fails.
HandleFetch_or_default(cfg, api, res) ==
    LET u   == IF res.tag = "Ok" THEN res.user ELSE DefaultUser
        bio == Render(cfg.bio_schema, u)
    IN  IF ExceedsLimit(bio)
        THEN [pc |-> "loop_top", user |-> Some(u), bio_str |-> Some(bio),
              log |-> "too_long", request |-> None]
        ELSE [pc |-> "publishing", user |-> Some(u), bio_str |-> Some(bio),
              log |-> "", request |-> Some(PatchRequest(api.token,
                                                        BioRequest(bio)))]

\* A loop body that renders the default schema, whatever the configuration.
HandleFetch_default_schema(cfg, api, res) ==
    IF res.tag = "Err"
    THEN [pc |-> "loop_top", user |-> None, bio_str |-> None,
          log |-> "fetch_error", request |-> None]
    ELSE LET bio == Render(DefaultConfig.bio_schema, res.user)
         IN  IF ExceedsLimit(bio)
             THEN [pc |-> "loop_top", user |-> Some(res.user),
                   bio_str |-> Some(bio), log |-> "too_long",
                   request |-> None]
             ELSE [pc |-> "publishing", user |-> Some(res.user),
                   bio_str |-> Some(bio), log |-> "",
                   request |-> Some(PatchRequest(api.token, BioRequest(bio)))]

\* A loop body that sends the publish request and does not await it.
HandleFetch_spawn(cfg, api, res) ==
    IF res.tag = "Err"
    THEN [pc |-> "loop_top", user |-> None, bio_str |-> None,
          log |-> "fetch_error", request |-> None]
    ELSE LET bio == Render(cfg.bio_schema, res.user)
         IN  IF ExceedsLimit(bio)
             THEN [pc |-> "loop_top", user |-> Some(res.user),
                   bio_str |-> Some(bio), log |-> "too_long",
                   request |-> None]
             ELSE [pc |-> "loop_top", user |-> Some(res.user),
                   bio_str |-> Some(bio), log |-> "",
                   request |-> Some(PatchRequest(api.token, BioRequest(bio)))]

\* main.rs:91-117  the loop body from the result of get_user to the call of
\* set_bio: where it goes on, its locals, what it logs, what it sends.
\* (log "" is no entry.)
HandleFetch(cfg, api, res) ==
    IF res.tag = "Err"
    THEN [pc |-> "loop_top", user |-> None, bio_str |-> None,
          log |-> "fetch_error", request |-> None]
    ELSE LET bio == Render(cfg.bio_schema, res.user)
         IN  IF ExceedsLimit(bio)
             THEN [pc |-> "loop_top", user |-> Some(res.user),
                   bio_str |-> Some(bio), log |-> "too_long",
                   request |-> None]
             ELSE [pc |-> "publishing", user |-> Some(res.user),
                   bio_str |-> Some(bio), log |-> "",
                   request |-> Some(PatchRequest(api.token, BioRequest(bio)))]

\* main.rs:91  quaver::get_user(config.quaver_user_id) is called.
IssueFetch ==
    /\ started' = TRUE
    /\ fetchReq' = Some([id |-> config.val.quaver_user_id])
    /\ iter' = IF iter < MaxIter THEN iter + 1 ELSE iter
    /\ pc' = "fetching"

\* main.rs:81-91  an iteration begins: the locals of the last one are gone;
\* the loop sleeps if it has started, and fetches at once if it has not.
LoopTop ==
    /\ pc = "loop_top"
    /\ user' = None /\ bio_str' = None
    /\ fetchResp' = None /\ fetchRes' = None
    /\ pubReq' = None /\ pubResp' = None /\ pubRes' = None
    /\ slept' = <<>> /\ pubCalls' = 0
    /\ IF NeedsSleep
       THEN pc' = "sleeping" /\ fetchReq' = None /\ UNCHANGED <<started, iter>>
       ELSE IssueFetch
    /\ UNCHANGED <<startFile, configFile, pathWritable, envToken, secretFile, config,
                   discord_api, log, key, value>>

\* main.rs:85-91  tokio::time::sleep(update_interval) returns.
SleepReturn ==
    /\ pc = "sleeping"
    /\ slept' = Append(slept, config.val.update_interval)
    /\ IssueFetch
    /\ UNCHANGED <<startFile, configFile, pathWritable, envToken, secretFile, config,
                   discord_api, user, bio_str, fetchResp, fetchRes, pubReq,
                   pubResp, pubRes, log, pubCalls, key, value>>

\* main.rs:91-117  get_user returns (or panics) for the response resp, and
\* the loop body runs up to its next await.
FetchReturn ==
    /\ pc = "fetching"
    /\ \E resp \in FetchResponses :
         LET res == get_user(fetchReq.val.id, resp)
         IN  /\ fetchResp' = Some(resp)
             /\ fetchRes' = Some(res)
             /\ IF res.tag = "Panic"
                THEN /\ pc' = "panicked"
                     /\ UNCHANGED <<user, bio_str, log, pubReq, pubCalls>>
                ELSE LET h == HandleFetch(config.val, discord_api.val, res)
                     IN  /\ pc' = h.pc
                         /\ user' = h.user
                         /\ bio_str' = h.bio_str
                         /\ log' = IF h.log = "" THEN log ELSE h.log
                         /\ pubReq' = h.request
                         /\ pubCalls' = IF h.request.some THEN pubCalls + 1
                                        ELSE pubCalls
    /\ UNCHANGED <<startFile, configFile, pathWritable, envToken, secretFile, config,
                   discord_api, started, fetchReq, pubResp, pubRes, iter,
                   slept, key, value>>

\* A loop that calls set_bio again when it fails.
PublishReturn_retry ==
    /\ pc = "publishing"
    /\ \E resp \in SendOutcomes(pubReq.val) :
         LET res == set_bio(resp)
         IN  /\ pubResp' = Some(resp)
             /\ pubRes' = Some(res)
             /\ log' = IF res.tag = "Ok" THEN "success" ELSE "publish_error"
             /\ IF res.tag = "Ok" \/ pubCalls >= 2
                THEN pc' = "loop_top" /\ pubCalls' = pubCalls
                ELSE pc' = "publishing" /\ pubCalls' = pubCalls + 1
    /\ UNCHANGED <<startFile, configFile, pathWritable, envToken, secretFile, config,
                   discord_api, started, user, bio_str, fetchReq, fetchResp,
                   fetchRes, pubReq, iter, slept, key, value>>

\* main.rs:114-123  set_bio returns for the response resp: the loop logs the
\* error or the success and the iteration is over.
PublishReturn ==
    /\ pc = "publishing"
    /\ \E resp \in SendOutcomes(pubReq.val) :
         LET res == set_bio(resp)
         IN  /\ pubResp' = Some(resp)
             /\ pubRes' = Some(res)
             /\ log' = IF res.tag = "Ok" THEN "success" ELSE "publish_error"
    /\ pc' = "loop_top"
    /\ UNCHANGED <<startFile, configFile, pathWritable, envToken, secretFile, config,
                   discord_api, started, user, bio_str, fetchReq, fetchResp,
                   fetchRes, pubReq, iter, slept, pubCalls, key, value>>

Next ==
    \/ LoadConfig
    \/ CreateApi
    \/ LoopTop
    \/ SleepReturn
    \/ FetchReturn
    \/ PublishReturn

Spec == Init /\ [][Next]_vars

\* The program under the scheduling of the tokio runtime: a step of main that
\* can run does run, and every get_user, set_bio and sleep future that main
\* awaits completes.
SpecFair ==
    /\ Spec
    /\ WF_vars(LoadConfig) /\ WF_vars(CreateApi) /\ WF_vars(LoopTop)
    /\ WF_vars(SleepReturn) /\ WF_vars(FetchReturn) /\ WF_vars(PublishReturn)

\* ------------------------------------------------- resolver specification
StatNames ==
    {S_rank, S_rank_country, S_total_score, S_ranked_score, S_accuracy,
     S_performance_rating, S_play_count, S_fail_count, S_max_combo}

\* main.rs:133-153  the supported keys.
RecognizedKeys ==
    {K_username, K_country} \cup {K4(n) : n \in StatNames}
      \cup {K7(n) : n \in StatNames}

\* Strings that are no supported key: another case, a prefix, a key with a
\* character more, another mode, the empty string, a key with a space.
UnknownKeys ==
    {<<"f", "o", "o">>, <<"U", "s", "e", "r", "n", "a", "m", "e">>,
     <<"4", "k">>, <<"8", "k", "_">> \o S_rank, K_username \o <<"_">>,
     <<>>, K4(S_rank) \o <<" ">>, <<"4", "K", "_">> \o S_rank}

\* The unknown keys a placeholder can hold: one or more word characters.
UnknownWordKeys ==
    {k \in UnknownKeys : k # <<>> /\ \A i \in 1..Len(k) : IsWordChar(k[i])}

\* The schema "a{k1}b{k2}".
TwoPlaceholders(k1, k2) ==
    <<"a">> \o Placeholder(k1) \o <<"b">> \o Placeholder(k2)

\* Keys for schemas of two placeholders: known ones and unknown ones.
SampleKeys ==
    {K_username, K_country, K4(S_rank), K7(S_accuracy)} \cup UnknownWordKeys

\* The schema "{{username}}": a placeholder between two braces.
NestedSchema == <<"{">> \o Placeholder(K_username) \o <<"}">>

Unclosed == <<"{", "u", "n", "c", "l", "o", "s", "e", "d">>

\* Schemas without a well-formed placeholder: plain text, the unclosed and
\* the empty placeholder, braces around a space, a hyphen or nothing, a
\* closing before an opening brace, characters outside ASCII, and ''.
NoPlaceholderSchemas ==
    {Hello, Unclosed, <<"{", "}">>, <<>>,
     <<"{", "}", " ", "eacute", "star", " ">> \o Unclosed,
     <<"{", "u", "s", "e", "r", " ", "n", "a", "m", "e", "}">>,
     <<"{", "4", "k", "-", "r", "a", "n", "k", "}">>,
     <<"}", "u", "s", "e", "r", "n", "a", "m", "e", "{">>,
     <<"{", "{", "}", "}", "star">>}

\* The schemas the renderer is called on.
ResolverSchemas ==
    Schemas \cup NoPlaceholderSchemas \cup {NestedSchema}
      \cup {TwoPlaceholders(k1, k2) : k1 \in SampleKeys, k2 \in SampleKeys}

\* The resolver and the renderer are called on a key, a schema and a user.
InitResolver ==
    /\ pc = "call"
    /\ key \in {Some(k) : k \in RecognizedKeys \cup UnknownKeys}
    /\ user \in {Some(u) : u \in Users}
    /\ \E s \in ResolverSchemas :
         config = Some([DefaultConfig EXCEPT !.bio_schema = s])
    /\ value = None /\ bio_str = None
    /\ configFile = [kind |-> "absent"] /\ pathWritable = FALSE
    /\ startFile = configFile
    /\ envToken = None /\ secretFile = [kind |-> "absent"]
    /\ discord_api = None /\ started = FALSE
    /\ fetchReq = None /\ fetchResp = None /\ fetchRes = None
    /\ pubReq = None /\ pubResp = None /\ pubRes = None
    /\ slept = <<>> /\ pubCalls = 0 /\ log = "none" /\ iter = 0

\* main.rs:104  map_key_to_user_value(key, &user)
Resolve ==
    /\ pc = "call" /\ value = None
    /\ value' = Some(map_key_to_user_value(key.val, user.val))
    /\ UNCHANGED <<pc, startFile, configFile, pathWritable, envToken, secretFile, config,
                   discord_api, started, user, bio_str, fetchReq, fetchResp,
                   fetchRes, pubReq, pubResp, pubRes, log, iter, slept,
                   pubCalls, key>>

\* main.rs:100  bio_regex.replace_all(&config.bio_schema, ...)
RenderSchema ==
    /\ pc = "call" /\ bio_str = None
    /\ bio_str' = Some(Render(config.val.bio_schema, user.val))
    /\ UNCHANGED <<pc, startFile, configFile, pathWritable, envToken, secretFile, config,
                   discord_api, started, user, fetchReq, fetchResp, fetchRes,
                   pubReq, pubResp, pubRes, log, iter, slept, pubCalls, key,
                   value>>

NextResolver == Resolve \/ RenderSchema

SpecResolver == InitResolver /\ [][NextResolver]_vars

\* ------------------------------------------------------------------ claims
LoopPcs == {"loop_top", "sleeping", "fetching", "publishing"}

\* C1: once the update loop has begun, the process is still in the loop
\* after every outcome of an iteration: it is never terminated.
C1_LoopNeverTerminates == started => pc \in LoopPcs

\* C2: get_user never panics: for every response it returns a profile
\* record or an error value.
C2_GetUserNeverPanics ==
    fetchRes.some => fetchRes.val.tag \in {"Ok", "Err"}

\* C3: in an iteration whose fetch failed the publisher is not called: a
\* publish request is made only after a successful fetch of that iteration.
C3_NoPublishAfterFailedFetch ==
    /\ pc = "publishing" => fetchRes.some /\ fetchRes.val.tag = "Ok"
    /\ pubReq.some => fetchRes.some /\ fetchRes.val.tag = "Ok"
    /\ (fetchRes.some /\ fetchRes.val.tag # "Ok") =>
           pubCalls = 0 /\ pc # "publishing"

\* A fetch has failed and the iteration was abandoned without a publish.
C3_Witness ==
    /\ fetchRes.some /\ fetchRes.val.tag = "Err"
    /\ pc = "loop_top" /\ log = "fetch_error" /\ pubCalls = 0

\* C4: the publisher is called in an iteration if and only if the rendered
\* bio has at most 190 characters, and no longer bio is ever sent.
C4_PublishIffWithinLimit ==
    /\ bio_str.some => (pubCalls = 1 <=> Len(bio_str.val) <= 190)
    /\ bio_str.some => (pubReq.some <=> Len(bio_str.val) <= 190)
    /\ pubReq.some => /\ Len(pubReq.val.request.bio.val) <= 190
                      /\ Len(pubReq.val.json.bio.val) <= 190

\* A rendered bio of exactly 190 characters is being published.
C4_Witness ==
    /\ pc = "publishing" /\ pubReq.some
    /\ bio_str.some /\ Len(bio_str.val) = 190
    /\ pubReq.val.json.bio = JsonValue(bio_str.val)

\* A rendered bio of 191 characters has aborted the iteration.
C4_Aborted191 ==
    /\ bio_str.some /\ Len(bio_str.val) = 191
    /\ pc = "loop_top" /\ log = "too_long" /\ ~pubReq.some

\* C5: the first fetch is made without a sleep before it, and every later
\* fetch is preceded by exactly one sleep of the configured interval,
\* whatever the outcome of the iteration before it.
C5_OneSleepBetweenFetches ==
    /\ pc = "sleeping" => iter >= 1 /\ slept = <<>>
    /\ fetchReq.some =>
           slept = IF iter = 1 THEN <<>> ELSE <<config.val.update_interval>>

\* The fetch after a failed publish is in flight, after one sleep.
C5_Witness ==
    /\ pc = "fetching" /\ iter = 2 /\ log = "publish_error"
    /\ slept = <<config.val.update_interval>>

\* C6: the publisher is called at most once per iteration: a failed publish
\* is not retried, and a publish request follows a successful fetch of its
\* own iteration, which after the first follows the interval sleep.
C6_AtMostOnePublish ==
    /\ pubCalls <= 1
    /\ (pubRes.some /\ pubRes.val.tag = "Err") => pc = "loop_top"
    /\ pc = "publishing" =>
           /\ ~pubRes.some
           /\ pubCalls = 1
           /\ fetchRes.some /\ fetchRes.val.tag = "Ok"
           /\ iter > 1 => slept = <<config.val.update_interval>>

\* A publish has failed, and the loop is back at its top after one call.
C6_Witness ==
    /\ pubRes.some /\ pubRes.val.tag = "Err"
    /\ pc = "loop_top" /\ pubCalls = 1 /\ log = "publish_error"

\* C7: every publish request sets only the bio, to the rendered bio; the
\* other fields are unset and are not members of the JSON body.
C7_OnlyBioOnTheWire ==
    pubReq.some =>
        /\ bio_str.some
        /\ pubReq.val.request =
               [bio |-> Some(bio_str.val), accent_color |-> None,
                pronouns |-> None, profile_effect |-> None]
        /\ pubReq.val.json =
               [bio |-> JsonValue(bio_str.val), accent_color |-> Absent,
                pronouns |-> Absent, profile_effect |-> Absent]

\* The bio "Hello, Player1! Your 4K rank is 42." is on the wire.
C7_Witness ==
    /\ pc = "publishing" /\ pubReq.some
    /\ pubReq.val.json.bio =
           JsonValue(Hello \o <<"P", "l", "a", "y", "e", "r", "1">>
                       \o YourRank \o <<"4", "2", ".">>)

\* C8: a fetch answered with a non-success status yields no profile record,
\* and nothing is published in that iteration.  (The claim says more, that
\* get_user returns an error; a run that violates this violates the claim.)
C8_NonSuccessStatusIsError ==
    (fetchResp.some /\ fetchResp.val.transport = "ok"
        /\ ~is_success(fetchResp.val.status)) =>
        fetchRes.val.tag # "Ok" /\ ~pubReq.some

\* C9: set_bio returns success if and only if the request was transported
\* and answered with a 2xx status; every other error carries the body.
C9_SuccessIffTransported2xx ==
    pubRes.some =>
        /\ pubRes.val.tag = "Ok" <=>
               (pubResp.val.transport = "ok" /\ pubResp.val.status >= 200
                  /\ pubResp.val.status <= 299)
        /\ pubRes.val.tag = "Err" =>
               \/ pubRes.val.err = "Request" /\ pubResp.val.transport = "error"
               \/ pubRes.val.err = "Unknown" /\ pubRes.val.body = pubResp.val.text.val

\* C10: for a key outside the recognized ones the resolver returns the empty
\* string for every profile record, and a schema of unknown placeholders
\* renders to its text without them.
C10_UnknownKeyResolvesToEmpty ==
    /\ (value.some /\ key.val \notin RecognizedKeys) => value.val = <<>>
    /\ \A k1 \in UnknownWordKeys :
           (bio_str.some /\ config.val.bio_schema = TwoPlaceholders(k1, k1))
               => bio_str.val = <<"a", "b">>
    /\ \A k1 \in UnknownWordKeys :
           (bio_str.some /\ config.val.bio_schema = TwoPlaceholders(k1, K_country))
               => bio_str.val = <<"a", "b">> \o user.val.country

\* The resolver has answered for an unknown key and the renderer for a
\* schema of two unknown placeholders.
C10_Witness ==
    /\ value.some /\ key.val = <<"U", "s", "e", "r", "n", "a", "m", "e">>
    /\ value.val = <<>>
    /\ bio_str.some /\ bio_str.val = <<"a", "b">>
    /\ config.val.bio_schema =
           TwoPlaceholders(<<"f", "o", "o">>, <<"f", "o", "o">>)

\* C11: every placeholder of the schema is replaced, left to right, by the
\* resolver's value, and an inserted value is not expanded again: a username
\* "{4k_rank}" is in the bio as it is.
C11_SinglePassNoRescan ==
    bio_str.some =>
        /\ \A k1 \in SampleKeys, k2 \in SampleKeys :
               config.val.bio_schema = TwoPlaceholders(k1, k2) =>
                   bio_str.val = <<"a">> \o map_key_to_user_value(k1, user.val)
                                   \o <<"b">>
                                   \o map_key_to_user_value(k2, user.val)
        /\ config.val.bio_schema = NestedSchema =>
               bio_str.val = <<"{">> \o user.val.username \o <<"}">>
        /\ (config.val.bio_schema = DefaultSchema /\ user.val = Braces) =>
               bio_str.val = Hello \o <<"{", "4", "k", "_", "r", "a", "n", "k", "}">>
                               \o YourRank \o <<"5", ".">>

\* The default schema is rendered for the user named "{4k_rank}", and the
\* name is in the bio.
C11_Witness ==
    /\ bio_str.some /\ config.val.bio_schema = DefaultSchema
    /\ user.val.username = <<"{", "4", "k", "_", "r", "a", "n", "k", "}">>
    /\ bio_str.val = Hello \o user.val.username \o YourRank \o <<"5", ".">>

\* C12: a schema without a well-formed placeholder renders to itself for
\* every profile record.
C12_NoPlaceholderIsUnchanged ==
    (bio_str.some /\ config.val.bio_schema \in NoPlaceholderSchemas) =>
        bio_str.val = config.val.bio_schema

\* The schema "{} <U+00E9><U+2605> {unclosed" has been rendered to itself.
C12_Witness ==
    /\ bio_str.some
    /\ bio_str.val = <<"{", "}", " ", "eacute", "star", " ">> \o Unclosed
    /\ config.val.bio_schema = bio_str.val

\* What each recognized key yields for Player1.
ExpectedPlayer1 ==
    <<<<K_username, <<"P", "l", "a", "y", "e", "r", "1">>>>,
      <<K_country, <<"U", "S">>>>,
      <<K4(S_rank), <<"4", "2">>>>,
      <<K4(S_rank_country), <<"7">>>>,
      <<K4(S_total_score), <<"1", "0", "0", "0", "0", "0", "1">>>>,
      <<K4(S_ranked_score), <<"9", "0", "0", "0", "0", "2">>>>,
      <<K4(S_accuracy), <<"9", "8", ".", "3", "8">>>>,
      <<K4(S_performance_rating), <<"5", "4", "0", ".", "1", "2">>>>,
      <<K4(S_play_count), <<"3", "5", "0">>>>,
      <<K4(S_fail_count), <<"1", "2">>>>,
      <<K4(S_max_combo), <<"1", "5", "0", "3">>>>,
      <<K7(S_rank), <<"6", "1", "0", "0">>>>,
      <<K7(S_rank_country), <<"8", "8">>>>,
      <<K7(S_total_score), <<"2", "0", "0", "0", "3">>>>,
      <<K7(S_ranked_score), <<"1", "0", "0", "0", "4">>>>,
      <<K7(S_accuracy), <<"8", "7", ".", "3", "8">>>>,
      <<K7(S_performance_rating), <<"1", "2", ".", "6", "2">>>>,
      <<K7(S_play_count), <<"2", "5">>>>,
      <<K7(S_fail_count), <<"9">>>>,
      <<K7(S_max_combo), <<"4", "0", "4">>>>>>

\* C13: for each of the 20 recognized keys the resolver returns the value of
\* exactly that key's field: the table of Player1, whose fields all differ,
\* and the identity fields of every user.
C13_RecognizedKeysReadTheirField ==
    /\ {ExpectedPlayer1[i][1] : i \in 1..Len(ExpectedPlayer1)} = RecognizedKeys
    /\ Cardinality(RecognizedKeys) = Len(ExpectedPlayer1)
    /\ value.some =>
           /\ \A i \in 1..Len(ExpectedPlayer1) :
                  (key.val = ExpectedPlayer1[i][1] /\ user.val = Player1) =>
                      value.val = ExpectedPlayer1[i][2]
           /\ key.val = K_username => value.val = user.val.username
           /\ key.val = K_country => value.val = user.val.country
           /\ key.val = K4(S_rank) =>
                  value.val = to_string(user.val.stats_keys4.ranks.global)
           /\ key.val = K7(S_rank) =>
                  value.val = to_string(user.val.stats_keys7.ranks.global)

\* The resolver has answered "6100" for 7k_rank of Player1.
C13_Witness ==
    /\ value.some /\ key.val = K7(S_rank) /\ user.val = Player1
    /\ value.val = <<"6", "1", "0", "0">>

\* C14 as claimed: a rendered bio of at most 190 visible characters is never
\* rejected for its length.
C14_VisibleCharactersCounted ==
    (bio_str.some /\ VisibleLen(bio_str.val) <= 190) =>
        pubReq.some

\* C14 as amended: the check counts the characters (Unicode scalar values)
\* of the rendered bio, not its bytes: a bio of at most 190 characters is
\* never rejected, however many bytes encode it, and the characters of the
\* schema outside placeholders are in the published bio as they are.
C14_CharactersNotBytes ==
    /\ (bio_str.some /\ Len(bio_str.val) <= 190) => pubReq.some
    /\ (bio_str.some /\ config.val.bio_schema = StarSchema) =>
           /\ ByteLen(bio_str.val) > 190
           /\ pubReq.some
           /\ pubReq.val.json.bio =
                  JsonValue(Repeat("star", 100) \o user.val.username)
    /\ (bio_str.some /\ ~pubReq.some) => Len(bio_str.val) > 190

\* A bio of more than 190 bytes and at most 190 characters is being
\* published, its U+2605 and U+00E9 as they were.
C14_Witness ==
    /\ pc = "publishing" /\ pubReq.some
    /\ ByteLen(bio_str.val) > 190 /\ Len(bio_str.val) <= 190
    /\ pubReq.val.json.bio =
           JsonValue(Repeat("star", 100)
                       \o <<"r", "eacute", "m", "i", "_", "x", "9", "9">>)

\* No fetch and no publish has been made, and the loop was not entered.
NothingRequested ==
    /\ ~started /\ iter = 0
    /\ fetchReq = None /\ pubReq = None /\ pubCalls = 0

\* The file Config::save writes for the defaults: user id 0, the default
\* schema, interval 1800.
DefaultFileText ==
    [kind |-> "json",
     fields |-> [quaver_user_id |-> Some(0),
                 bio_schema |-> Some(Hello \o <<"{">> \o K_username \o <<"}">>
                                       \o YourRank \o <<"{">> \o K4(S_rank)
                                       \o <<"}", ".">>),
                 update_interval |-> Some(1800)]]

\* C15 as claimed: when the configuration file is absent at startup, the
\* default file is written and the process ends without entering the loop.
C15_DefaultFileWritten ==
    (startFile.kind = "absent" /\ pc # "load_config") =>
        /\ configFile = DefaultFileText
        /\ pc = "exited" /\ config = None /\ NothingRequested

\* C15 as amended: when the configuration file is absent at startup, the
\* process ends without entering the loop and without a configuration; the
\* default file is at the path if the file could be created, and no file is
\* there if it could not.
C15_AbsentConfigEndsStartup ==
    (startFile.kind = "absent" /\ pc # "load_config") =>
        /\ pc = "exited" /\ config = None /\ NothingRequested
        /\ pathWritable => configFile = DefaultFileText
        /\ ~pathWritable => configFile = startFile

\* The file was absent, the defaults were written and the process has ended.
C15_Witness ==
    /\ startFile.kind = "absent" /\ pc = "exited"
    /\ configFile = DefaultFileText /\ config = None /\ ~started

\* C16: a missing credential or a malformed configuration file ends the
\* process before the loop begins, with no fetch and no publish; and the
\* process ends by itself only in such a startup failure, never in the loop.
C16_OnlyStartupFailureEnds ==
    /\ (~envToken.some \/ startFile.kind = "malformed") =>
           pc \notin LoopPcs /\ NothingRequested
    /\ pc \notin LoopPcs \cup {"load_config", "create_api"} =>
           pc = "exited" /\ NothingRequested

\* A fetch request was sent and is not answered yet.
FetchInFlight == fetchReq.some /\ ~fetchResp.some

\* A publish request was sent and is not answered yet.
PublishInFlight == pubReq.some /\ ~pubResp.some

\* C17: iterations never overlap: at most one request of the loop is in
\* flight, the loop waits for it where it was sent, and a fetch is sent only
\* when the iteration before it has left nothing behind.
C17_NoOverlap ==
    /\ ~(FetchInFlight /\ PublishInFlight)
    /\ FetchInFlight <=> pc = "fetching"
    /\ PublishInFlight <=> pc = "publishing"
    /\ pc = "fetching" =>
           /\ pubReq = None /\ pubResp = None /\ pubRes = None
           /\ user = None /\ bio_str = None /\ fetchRes = None

\* In the second iteration the publish is in flight and the fetch is not.
C17_Witness ==
    /\ iter = 2 /\ pc = "publishing"
    /\ PublishInFlight /\ ~FetchInFlight /\ fetchResp.some

\* C18 as stated: the Authorization value of a publish request is the
\* contents of the file the environment value names, and the environment
\* value itself when it names no regular file.
C18_LiteralValueIsCredential ==
    pubReq.some =>
        pubReq.val.authorization =
            IF secretFile.kind = "file" THEN secretFile.content
            ELSE envToken.val

\* The credential main.rs:38 resolves from the environment of the process:
\* the file's contents as they are, or the value without its trailing spaces.
ResolvedCredential ==
    IF secretFile.kind = "file" THEN secretFile.content
    ELSE trim_end_spaces(envToken.val)

\* C18: the credential is resolved once, before the loop: the contents of
\* the regular file the environment value names, otherwise that value with
\* its trailing spaces removed.  The loop holds this credential unchanged and
\* every publish request carries it as its Authorization value.
C18_ResolvedOnceAndSent ==
    /\ pc \in LoopPcs \cup {"panicked"} =>
           /\ envToken.some /\ secretFile.kind # "unreadable"
           /\ discord_api = Some([token |-> ResolvedCredential])
    /\ pubReq.some => pubReq.val.authorization = ResolvedCredential

\* In the second iteration a publish request carries a credential that is
\* the environment value without its trailing spaces.
C18_Witness ==
    /\ iter = 2 /\ pubReq.some
    /\ secretFile.kind # "file"
    /\ pubReq.val.authorization = trim_end_spaces(envToken.val)
    /\ pubReq.val.authorization # envToken.val

\* The configuration Config::new reads from the file the process started
\* with (main.rs:70).
StartupConfig == ParseConfig(startFile.fields)

\* C19: the loop uses the configuration read at startup in every iteration:
\* the user id of every fetch, the interval of every sleep and the schema of
\* every rendering are its values.  The record, the bio and the publish
\* request of an iteration are made from the response to the fetch of that
\* iteration, and a fetch begins with none of them alive.
C19_BioFromThisIterationAndStartupConfig ==
    /\ pc \in LoopPcs \cup {"panicked"} =>
           startFile.kind = "json" /\ config = Some(StartupConfig)
    /\ fetchReq.some => fetchReq.val.id = StartupConfig.quaver_user_id
    /\ \A i \in 1..Len(slept) : slept[i] = StartupConfig.update_interval
    /\ fetchRes.some =>
           fetchResp.some /\ fetchRes.val = get_user(fetchReq.val.id, fetchResp.val)
    /\ user.some =>
           fetchRes.some /\ fetchRes.val.tag = "Ok"
               /\ user.val = fetchRes.val.user
    /\ bio_str.some =>
           user.some
               /\ bio_str.val = Render(StartupConfig.bio_schema, user.val)
    /\ pubReq.some =>
           bio_str.some
               /\ pubReq.val.request = BioRequest(bio_str.val)
    /\ pc \in {"sleeping", "fetching"} =>
           /\ user = None /\ bio_str = None
           /\ fetchResp = None /\ fetchRes = None
           /\ pubReq = None /\ pubResp = None /\ pubRes = None

\* In the second iteration, after a sleep of the configured interval, a bio
\* rendered from a schema that is not the default one is being published.
C19_Witness ==
    /\ iter = 2 /\ pc = "publishing" /\ pubReq.some
    /\ slept = <<StartupConfig.update_interval>>
    /\ StartupConfig.bio_schema # DefaultConfig.bio_schema
    /\ bio_str.val # Render(DefaultConfig.bio_schema, user.val)
    /\ pubReq.val.request = BioRequest(Render(config.val.bio_schema,
                                              fetchRes.val.user))

\* C20: when every fetch, publish and sleep returns, a loop that has started
\* fetches again and again, and an iteration that failed is followed by a
\* new fetch.
C20_InfinitelyManyFetches ==
    /\ [](started => <>(pc = "fetching"))
    /\ [](fetchRes.some /\ fetchRes.val.tag # "Ok" => <>(pc = "fetching"))

====
